---- MODULE Spec2Model ----
(***************************************************************************)
(* Model of the frame-sampling engine of Auto-Manual-Creator               *)
(* (utils/videoProcessor.ts, kept in src/unnamed/part_001): one            *)
(* extractFrames run on one video element.                                 *)
(*                                                                         *)
(* Time.  Durations are counted in units of 5 ms, so that the 0.01 s end   *)
(* margin of the scan is 2 units and SCAN_INTERVAL (0.5 s) is 100 units.   *)
(* A timestamp is counted in ticks: one unit is (maxFrames + 1) ticks, so  *)
(* that duration / (count + 1) of generateEqualIntervals is a whole        *)
(* number of ticks and every timestamp of a run is an exact rational.      *)
(* (The code computes in IEEE doubles; the model computes the exact        *)
(* value.)                                                                 *)
(*                                                                         *)
(* Scores.  calculateFrameDifference returns sum / (3 * 255 * pixelCount); *)
(* the model keeps the numerator `sum` as the changeScore, all rasters of  *)
(* a run having the same pixel count.  A sensitivity is given in           *)
(* thousandths (0.1 is 100).                                               *)
(***************************************************************************)
EXTENDS Integers, Sequences, FiniteSets, TLC

\* ------------------------------------------------------------ constants
\* const SCAN_INTERVAL = 0.5 (seconds), in 5 ms units
SCAN_INTERVAL == 100
\* const MIN_FRAME_INTERVAL = 1.0 (seconds), in 5 ms units
MIN_FRAME_INTERVAL == 200
\* the 0.01 of Math.min(i * SCAN_INTERVAL, duration - 0.01), in 5 ms units
SEEK_END_MARGIN == 2
\* const MIN_FRAMES = 3
MIN_FRAMES == 3
\* DEFAULT_OPTIONS.maxFrames
DEFAULT_MAX_FRAMES == 10
\* DEFAULT_OPTIONS.sensitivity, 0.03, in thousandths
DEFAULT_SENSITIVITY == 30
\* the default the doc comment of ExtractOptions.sensitivity states, 0.15
DOCUMENTED_SENSITIVITY == 150
\* the sensitivity processVideo passes to extractFrames, 0.15
APP_SENSITIVITY == 150
\* the largest value of a colour channel (Uint8ClampedArray), 3 * 255 in the code
CHANNEL_MAX == 255

Second == 2 * SCAN_INTERVAL

\* ------------------------------------------------------------ bounds
\* maxFrames (and the legacy count) range over 0..MaxFrames
MaxFrames == 4
\* free-content videos last up to MaxHalfSeconds * 0.5 s
MaxHalfSeconds == 6
\* pixels of a scanned raster (SAMPLE_WIDTH * SAMPLE_HEIGHT in the code)
NumPixels == 1

\* durations (5 ms units) below the scan interval and off the scan grid:
\* 0.005 s, 0.01 s, 0.3 s, 1.25 s
ShortDurations == {1, SEEK_END_MARGIN, 60, 250}
FreeDurations == ShortDurations \cup {h * SCAN_INTERVAL : h \in 1..MaxHalfSeconds}
\* the two scripted videos: 10 s and 20 s
ScriptedDurations == {10 * Second, 20 * Second}
\* sensitivities in thousandths: 0.05 and 0.1
Sensitivities == {50, 100}

Min(a, b) == IF a < b THEN a ELSE b

\* ------------------------------------------------------------ rasters
\* A raster is an RGBA byte sequence of NumPixels pixels; the model's videos
\* show flat rasters of these grey levels (alpha 255).
Flat(level, alpha) ==
    [k \in 1..(4 * NumPixels) |-> IF k % 4 = 0 THEN alpha ELSE level]
Black == Flat(0, CHANNEL_MAX)
Dim   == Flat(20, CHANNEL_MAX)
White == Flat(CHANNEL_MAX, CHANNEL_MAX)
Rasters == {Black, Dim, White}
\* rasters of a video with an alpha channel: fully transparent pixels
ClearBlack == Flat(0, 0)
ClearWhite == Flat(CHANNEL_MAX, 0)
NoPixels == <<>>

Abs(x) == IF x < 0 THEN -x ELSE x

\* the loop of calculateFrameDifference adding the alpha difference as well
RECURSIVE SumDiffWithAlpha(_, _, _)
SumDiffWithAlpha(pixels1, pixels2, i) ==
    IF i > Len(pixels1) THEN 0
    ELSE Abs(pixels1[i] - pixels2[i])
         + Abs(pixels1[i + 1] - pixels2[i + 1])
         + Abs(pixels1[i + 2] - pixels2[i + 2])
         + Abs(pixels1[i + 3] - pixels2[i + 3])
         + SumDiffWithAlpha(pixels1, pixels2, i + 4)

\* the loop of calculateFrameDifference: the sum of |dr| + |dg| + |db| over the
\* pixels starting at byte i (1-based), alpha skipped
RECURSIVE SumDiff(_, _, _)
SumDiff(pixels1, pixels2, i) ==
    IF i > Len(pixels1) THEN 0
    ELSE Abs(pixels1[i] - pixels2[i])
         + Abs(pixels1[i + 1] - pixels2[i + 1])
         + Abs(pixels1[i + 2] - pixels2[i + 2])
         + SumDiff(pixels1, pixels2, i + 4)

\* the denominator of a score: 3 * 255 * pixelCount
ScoreDen(pixels) == 3 * CHANNEL_MAX * (Len(pixels) \div 4)

\* calculateFrameDifference: the numerator of the score over ScoreDen(pixels1)
calculateFrameDifference(pixels1, pixels2) == SumDiff(pixels1, pixels2, 1)

\* diff >= sensitivity, sensitivity in thousandths
AtLeastSensitivity(diff, pixels, sensitivity) ==
    diff * 1000 >= sensitivity * ScoreDen(pixels)

\* ------------------------------------------------------------ state
VARIABLES
    options,         \* the caller's options: the fields it gave, and the variant called (api)
    opts,            \* the resolved options: api, mode, maxFrames, sensitivity, onProgress
    duration,        \* video.duration, in 5 ms units
    video,           \* what the video shows: [kind, a, b, cut]
    ctx,             \* legacy variant: canvas.getContext('2d') returned a context
    pc,              \* where the run is: "loading", "scan", "capture", "done"
    seek,            \* the seek issued last: "none", "pending", "stalled"
    seekLog,         \* every seek issued so far: [phase, time], time in ticks
    scanI,           \* i of the loop of detectSceneChanges
    previousPixels,  \* previousPixels of detectSceneChanges (NoPixels for null)
    changes,         \* changes of detectSceneChanges
    frameTimestamps, \* frameTimestamps of extractFrames
    capI,            \* i of the capture loop (0-based, as in the code)
    frames,          \* frames of extractFrames
    promise,         \* the promise extractFrames returned: [state, value]
    revoked,         \* number of URL.revokeObjectURL(video.src) calls
    errorFired,      \* the video's error event has fired
    threw,           \* an exception was thrown inside the try block
    progressLog,     \* the values passed to opts.onProgress
    appPc,           \* the App: "none" (no App), "idle", "extracting", "analyzing",
                     \* "succeeded", "failed"
    isProcessing,    \* isProcessing of the App
    shown,           \* every value progress of the App has had, the last one shown
    selectedLangs,   \* selectedLangs of the App
    generatedSteps,  \* generatedSteps of processVideo: the summary of each step
    requests,        \* what reached the vision-language service, request by request
    appError         \* error of the App is set

vars == <<options, opts, duration, video, ctx, pc, seek, seekLog, scanI, previousPixels,
          changes, frameTimestamps, capI, frames, promise, revoked, errorFired,
          threw, progressLog, appPc, isProcessing, shown, selectedLangs,
          generatedSteps, requests, appError>>

\* the App's state but its progress
appState == <<appPc, isProcessing, selectedLangs, generatedSteps, requests, appError>>

\* ticks per 5 ms unit, and a span of units in ticks
TimeDen == opts.maxFrames + 1
Ticks(units) == units * TimeDen

\* Math.round(timestamp * 10): the timestamp (ticks) in tenths of a second,
\* rounded half up
RoundTenths(timestamp) ==
    (2 * 10 * timestamp + Ticks(Second)) \div (2 * Ticks(Second))

\* ------------------------------------------------------------ sorting
\* Array.prototype.sort is stable: an element goes to the place that counts
\* the elements sorting before it and the equal ones standing before it.
\* .sort((a, b) => a.timestamp - b.timestamp)
SortAscTimestamp(s) ==
    LET n == Len(s)
        rank(i) == Cardinality({j \in 1..n :
                        \/ s[j].timestamp < s[i].timestamp
                        \/ s[j].timestamp = s[i].timestamp /\ j < i})
    IN  [k \in 1..n |-> s[CHOOSE i \in 1..n : rank(i) = k - 1]]

\* .sort((a, b) => b.changeScore - a.changeScore)
SortDescScore(s) ==
    LET n == Len(s)
        rank(i) == Cardinality({j \in 1..n :
                        \/ s[j].changeScore > s[i].changeScore
                        \/ s[j].changeScore = s[i].changeScore /\ j < i})
    IN  [k \in 1..n |-> s[CHOOSE i \in 1..n : rank(i) = k - 1]]

\* .slice(0, n)
Slice0(s, n) == SubSeq(s, 1, Min(Len(s), IF n < 0 THEN 0 ELSE n))

\* ------------------------------------------------------------ consolidateChanges
\* step 1 of consolidateChanges: the loop over changes[i], i 1-based here,
\* merged being the array built so far
\* MergeClose replacing the kept point also on equal scores: the later point
\* wins a tie
RECURSIVE MergeCloseLaterWinsTies(_, _, _)
MergeCloseLaterWinsTies(chs, i, merged) ==
    IF i > Len(chs) THEN merged
    ELSE LET last == merged[Len(merged)] IN
         IF chs[i].timestamp - last.timestamp < Ticks(MIN_FRAME_INTERVAL)
         THEN IF chs[i].changeScore >= last.changeScore
              THEN MergeCloseLaterWinsTies(chs, i + 1, [merged EXCEPT ![Len(merged)] = chs[i]])
              ELSE MergeCloseLaterWinsTies(chs, i + 1, merged)
         ELSE MergeCloseLaterWinsTies(chs, i + 1, Append(merged, chs[i]))

\* MergeClose merging only the points less than one scan interval apart
RECURSIVE MergeCloseScanInterval(_, _, _)
MergeCloseScanInterval(chs, i, merged) ==
    IF i > Len(chs) THEN merged
    ELSE LET last == merged[Len(merged)] IN
         IF chs[i].timestamp - last.timestamp < Ticks(SCAN_INTERVAL)
         THEN IF chs[i].changeScore > last.changeScore
              THEN MergeCloseScanInterval(chs, i + 1, [merged EXCEPT ![Len(merged)] = chs[i]])
              ELSE MergeCloseScanInterval(chs, i + 1, merged)
         ELSE MergeCloseScanInterval(chs, i + 1, Append(merged, chs[i]))

RECURSIVE MergeClose(_, _, _)
MergeClose(chs, i, merged) ==
    IF i > Len(chs) THEN merged
    ELSE LET last == merged[Len(merged)] IN
         IF chs[i].timestamp - last.timestamp < Ticks(MIN_FRAME_INTERVAL)
         THEN IF chs[i].changeScore > last.changeScore
              THEN MergeClose(chs, i + 1, [merged EXCEPT ![Len(merged)] = chs[i]])
              ELSE MergeClose(chs, i + 1, merged)
         ELSE MergeClose(chs, i + 1, Append(merged, chs[i]))

\* consolidateChanges returning the top points in score order, without the
\* final sort by time
consolidateChangesScoreOrder(chs, maxFrames) ==
    IF Len(chs) = 0 THEN <<>>
    ELSE LET merged == MergeClose(chs, 2, <<chs[1]>>) IN
         IF Len(merged) <= maxFrames THEN merged
         ELSE Slice0(SortDescScore(merged), maxFrames)

consolidateChanges(chs, maxFrames) ==
    IF Len(chs) = 0 THEN <<>>
    ELSE LET merged == MergeClose(chs, 2, <<chs[1]>>) IN
         IF Len(merged) <= maxFrames THEN merged
         ELSE SortAscTimestamp(Slice0(SortDescScore(merged), maxFrames))

\* ------------------------------------------------------------ generateEqualIntervals
\* generateEqualIntervals with the loop running from 0: the start of the
\* video is sampled
generateEqualIntervalsFromZero(dur, count) ==
    LET interval == dur \div (count + 1) IN
    [i \in 1..count |-> [timestamp |-> (i - 1) * interval, changeScore |-> 0]]

\* generateEqualIntervals producing MIN_FRAMES points at most
generateEqualIntervalsFloorOnly(dur, count) ==
    LET interval == dur \div (count + 1) IN
    [i \in 1..Min(MIN_FRAMES, count) |-> [timestamp |-> i * interval, changeScore |-> 0]]

\* dur in ticks; the division is exact by the choice of the tick
generateEqualIntervals(dur, count) ==
    LET interval == dur \div (count + 1) IN
    [i \in 1..count |-> [timestamp |-> i * interval, changeScore |-> 0]]

\* ------------------------------------------------------------ the backfill
\* Backfill without the sort by time
BackfillUnsorted(ft, dur, maxFrames) ==
    LET equalFrames == generateEqualIntervals(dur, maxFrames)
        existingTimes == {RoundTenths(ft[k].timestamp) : k \in 1..Len(ft)}
        added == SelectSeq(equalFrames,
                           LAMBDA eq : RoundTenths(eq.timestamp) \notin existingTimes)
    IN  Slice0(ft \o added, maxFrames)

\* Backfill without the cut to maxFrames
BackfillUncut(ft, dur, maxFrames) ==
    LET equalFrames == generateEqualIntervals(dur, maxFrames)
        existingTimes == {RoundTenths(ft[k].timestamp) : k \in 1..Len(ft)}
        added == SelectSeq(equalFrames,
                           LAMBDA eq : RoundTenths(eq.timestamp) \notin existingTimes)
    IN  SortAscTimestamp(ft \o added)

\* Backfill pushing every equal interval, taken or not
BackfillNoDedup(ft, dur, maxFrames) ==
    LET equalFrames == generateEqualIntervals(dur, maxFrames)
    IN  Slice0(SortAscTimestamp(ft \o equalFrames), maxFrames)

\* lines 397-412 of extractFrames: the equal intervals whose rounded time is
\* not taken are pushed, the array is sorted by time and cut to maxFrames
Backfill(ft, dur, maxFrames) ==
    LET equalFrames == generateEqualIntervals(dur, maxFrames)
        existingTimes == {RoundTenths(ft[k].timestamp) : k \in 1..Len(ft)}
        added == SelectSeq(equalFrames,
                           LAMBDA eq : RoundTenths(eq.timestamp) \notin existingTimes)
    IN  Slice0(SortAscTimestamp(ft \o added), maxFrames)

\* SelectAuto backfilling only when nothing was detected
SelectAutoBackfillWhenEmpty(rawChanges, dur, maxFrames) ==
    LET ft == consolidateChanges(rawChanges, maxFrames) IN
    IF Len(ft) = 0 THEN Backfill(ft, dur, maxFrames) ELSE ft

\* SelectAuto backfilling whatever was detected
SelectAutoAlwaysBackfill(rawChanges, dur, maxFrames) ==
    LET ft == consolidateChanges(rawChanges, maxFrames) IN
    Backfill(ft, dur, maxFrames)

\* the timestamps automatic mode selects from the raw changes
SelectAuto(rawChanges, dur, maxFrames) ==
    LET ft == consolidateChanges(rawChanges, maxFrames) IN
    IF Len(ft) < MIN_FRAMES THEN Backfill(ft, dur, maxFrames) ELSE ft

\* ------------------------------------------------------------ the video
\* the rasters a seek to `time` (ticks) may render: anything for a free video,
\* raster a before the cut and raster b from the cut on for a scripted one
Rendered(time) ==
    IF video.kind = "free" THEN Rasters
    ELSE IF video.kind = "scripted"
         THEN {IF time < Ticks(video.cut) THEN video.a ELSE video.b}
         ELSE {video.tones[Min(Len(video.tones), time \div Ticks(SCAN_INTERVAL) + 1)]}

\* ------------------------------------------------------------ detectSceneChanges
\* the scan loop running while i < totalScans: one scan step fewer
totalScansExclusive == duration \div SCAN_INTERVAL - 1

\* Math.floor(duration / SCAN_INTERVAL)
totalScans == duration \div SCAN_INTERVAL

\* the scan time without the clamp to the end of the video
ScanTimeUnclamped(i) == Ticks(i * SCAN_INTERVAL)

\* Math.min(i * SCAN_INTERVAL, duration - 0.01), in ticks
ScanTime(i) == Min(Ticks(i * SCAN_INTERVAL), Ticks(duration - SEEK_END_MARGIN))

\* Math.round((i / totalScans) * 100); 0 / 0 is NaN
ProgressValue(i) ==
    IF totalScans = 0 THEN [nan |-> TRUE, value |-> 0]
    ELSE [nan |-> FALSE, value |-> (2 * 100 * i + totalScans) \div (2 * totalScans)]

\* the comparison raster never advancing past the first scanned raster
KeepFirstPrevious(previous, current) ==
    IF previous = NoPixels THEN current ELSE previous

\* the comparison raster advancing only when a ChangePoint was emitted
NextPreviousOnEmit(previous, current) ==
    IF \/ previous = NoPixels
       \/ AtLeastSensitivity(calculateFrameDifference(previous, current), current,
                             opts.sensitivity)
    THEN current ELSE previous

\* previousPixels = currentPixels, at the end of each pass of the scan loop
NextPrevious(previous, current) == current

\* ------------------------------------------------------------ the promise
Pending == [state |-> "pending", value |-> <<>>]

\* resolve(value) / reject(...): only the first call settles a promise
Settle(p, state, value) ==
    IF p.state = "pending" THEN [state |-> state, value |-> value] ELSE p

\* what the catch block of onloadedmetadata does with the promise: reject(err)
CatchSettles(p) == Settle(p, "rejected", <<>>)

\* video.onerror leaving the promise alone
ErrorLeavesPending(p) == p

\* what video.onerror does with the promise: reject(new Error(...))
ErrorSettles(p) == Settle(p, "rejected", <<>>)

\* video.onerror without the revokeObjectURL call (as legacy onerror = reject)
ErrorRevokesNothing(n) == n

\* URL.revokeObjectURL(video.src) in video.onerror
ErrorRevokes(n) == n + 1

\* the encoded still image of a frame (its content is not modelled)
DataUrl == "image/jpeg"

\* ------------------------------------------------------------ the App's progress
\* a progress value: NaN, or the fraction num / den
Whole(n) == [nan |-> FALSE, num |-> n, den |-> 1]

\* (p) => setProgress(Math.round(p * 0.3)): NaN stays NaN
ScanProgress(p) ==
    IF p.nan THEN [nan |-> TRUE, num |-> 0, den |-> 1]
    ELSE Whole((2 * 3 * p.value + 10) \div (2 * 10))

\* setProgress(30 + ((i + 1) / frames.length) * 70), i + 1 = done
AnalysisProgress(done, count) ==
    [nan |-> FALSE, num |-> 30 * count + done * 70, den |-> count]

\* useState(['ja', 'en'])
INITIAL_LANGS == <<"ja", "en">>

\* ------------------------------------------------------------ the capture loop
\* the capture loop without its await: every capture seek is issued at once
StartCaptureWithoutAwait(ft) ==
    /\ frameTimestamps' = ft
    /\ frames' = <<>>
    /\ capI' = 0
    /\ IF Len(ft) = 0
       THEN /\ revoked' = revoked + 1
            /\ promise' = Settle(promise, "resolved", <<>>)
            /\ pc' = "done"
            /\ seek' = "none"
            /\ seekLog' = seekLog
       ELSE /\ pc' = "capture"
            /\ seek' = "pending"
            /\ seekLog' = seekLog \o [k \in 1..Len(ft) |->
                                        [phase |-> "capture", time |-> ft[k].timestamp]]
            /\ UNCHANGED <<revoked, promise>>

\* lines 421-450 of extractFrames up to the first await (or to resolve, when
\* there is nothing to capture), entered with the selected timestamps ft
StartCapture(ft) ==
    /\ frameTimestamps' = ft
    /\ frames' = <<>>
    /\ capI' = 0
    /\ IF Len(ft) = 0
       THEN /\ revoked' = revoked + 1
            /\ promise' = Settle(promise, "resolved", <<>>)
            /\ pc' = "done"
            /\ seek' = "none"
            /\ seekLog' = seekLog
       ELSE /\ pc' = "capture"
            /\ seek' = "pending"
            /\ seekLog' = Append(seekLog, [phase |-> "capture", time |-> ft[1].timestamp])
            /\ UNCHANGED <<revoked, promise>>

\* the mode test taken for every run: every run scans
ScansAlways == TRUE

\* if (opts.mode === 'auto'): the run scans before it captures
ScansFirst == opts.mode = "auto"

\* video.onloadedmetadata up to its first await: automatic mode issues the
\* first scan seek, manual mode selects the equal intervals and starts capturing
LoadedMetadata ==
    /\ opts.api = "options"
    /\ pc = "loading"
    /\ IF ScansFirst
       THEN /\ pc' = "scan"
            /\ scanI' = 0
            /\ seek' = "pending"
            /\ seekLog' = Append(seekLog, [phase |-> "scan", time |-> ScanTime(0)])
            /\ UNCHANGED <<frameTimestamps, frames, capI, revoked, promise>>
       ELSE /\ StartCapture(generateEqualIntervals(Ticks(duration), opts.maxFrames))
            /\ UNCHANGED scanI
    /\ UNCHANGED <<appState, shown, options, opts, duration, video, ctx, previousPixels, changes, errorFired,
                   threw, progressLog>>

\* one pass of the loop of detectSceneChanges after its seek completed: render,
\* compare, report, then either seek the next scan time or leave the loop,
\* consolidate, backfill and start capturing
ScanSeeked ==
    /\ opts.api = "options"
    /\ pc = "scan"
    /\ seek = "pending"
    /\ \E currentPixels \in Rendered(ScanTime(scanI)) :
         LET time == ScanTime(scanI)
             diff == calculateFrameDifference(previousPixels, currentPixels)
             emitted == /\ previousPixels # NoPixels
                        /\ AtLeastSensitivity(diff, currentPixels, opts.sensitivity)
             newChanges == IF emitted
                           THEN Append(changes, [timestamp |-> time, changeScore |-> diff])
                           ELSE changes
         IN  /\ changes' = newChanges
             /\ previousPixels' = NextPrevious(previousPixels, currentPixels)
             /\ progressLog' = IF opts.onProgress
                               THEN Append(progressLog, ProgressValue(scanI))
                               ELSE progressLog
             /\ scanI' = scanI + 1
             /\ IF scanI < totalScans
                THEN /\ seek' = "pending"
                     /\ seekLog' = Append(seekLog,
                                          [phase |-> "scan", time |-> ScanTime(scanI + 1)])
                     /\ UNCHANGED <<pc, frameTimestamps, frames, capI, revoked, promise>>
                ELSE StartCapture(SelectAuto(newChanges, Ticks(duration), opts.maxFrames))
    \* the callback the App gave sets its progress
    /\ shown' = IF opts.onProgress /\ appPc # "none"
                THEN Append(shown, ScanProgress(ProgressValue(scanI)))
                ELSE shown
    /\ UNCHANGED <<appState, options, opts, duration, video, ctx, errorFired, threw>>

\* a frame pushed without the score of its selection
FrameWithoutScore(sel) ==
    [timestamp |-> sel.timestamp, dataUrl |-> DataUrl, changeScore |-> 0]

\* frames.push({ timestamp, dataUrl, changeScore }) for the selected point sel
FrameOf(sel) ==
    [timestamp |-> sel.timestamp, dataUrl |-> DataUrl, changeScore |-> sel.changeScore]

\* one pass of the capture loop after its seek completed: draw, push the frame,
\* then either seek the next timestamp or release the URL and resolve
CaptureSeeked ==
    /\ opts.api = "options"
    /\ pc = "capture"
    /\ seek = "pending"
    /\ LET sel == frameTimestamps[capI + 1]
           newFrames == Append(frames, FrameOf(sel))
       IN  /\ frames' = newFrames
           /\ capI' = capI + 1
           /\ IF capI + 1 < Len(frameTimestamps)
              THEN /\ seek' = "pending"
                   /\ seekLog' = Append(seekLog,
                         [phase |-> "capture", time |-> frameTimestamps[capI + 2].timestamp])
                   /\ UNCHANGED <<pc, revoked, promise>>
              ELSE /\ seek' = "none"
                   /\ revoked' = revoked + 1
                   /\ promise' = Settle(promise, "resolved", newFrames)
                   /\ pc' = "done"
                   /\ UNCHANGED seekLog
    /\ UNCHANGED <<appState, shown, options, opts, duration, video, ctx, scanI, previousPixels, changes,
                   frameTimestamps, errorFired, threw, progressLog>>

\* the seek completes but the code after the await throws (a null 2D context
\* behind the `!`, a failing drawImage / getImageData / toDataURL): the catch
\* block releases the URL and rejects
RenderThrows ==
    /\ opts.api = "options"
    /\ pc \in {"scan", "capture"}
    /\ seek = "pending"
    /\ threw' = TRUE
    /\ revoked' = revoked + 1
    /\ promise' = CatchSettles(promise)
    /\ pc' = "done"
    /\ seek' = "none"
    \* the locals of the async function die with it
    /\ scanI' = 0
    /\ previousPixels' = NoPixels
    /\ changes' = <<>>
    /\ frameTimestamps' = <<>>
    /\ capI' = 0
    /\ frames' = <<>>
    /\ UNCHANGED <<appState, shown, options, opts, duration, video, ctx, seekLog, errorFired, progressLog>>

\* the environment: the seek issued last never completes (no seeked event)
SeekNeverCompletes ==
    /\ pc \in {"scan", "capture"}
    /\ seek = "pending"
    /\ seek' = "stalled"
    /\ UNCHANGED <<appState, shown, options, opts, duration, video, ctx, pc, seekLog, scanI, previousPixels,
                   changes, frameTimestamps, capI, frames, promise, revoked, errorFired,
                   threw, progressLog>>

\* video.onerror: the error event fires while the run is loading, scanning or
\* capturing; the async function is not told and goes on if its seek completes
VideoError ==
    /\ opts.api = "options"
    /\ pc # "done"
    /\ ~errorFired
    /\ errorFired' = TRUE
    /\ revoked' = ErrorRevokes(revoked)
    /\ promise' = ErrorSettles(promise)
    /\ pc' = IF pc = "loading" THEN "done" ELSE pc
    /\ UNCHANGED <<appState, shown, options, opts, duration, video, ctx, seek, seekLog, scanI, previousPixels,
                   changes, frameTimestamps, capI, frames, threw, progressLog>>

\* ------------------------------------------------------------ the legacy variant
\* extractFrames(videoFile, count): interval = duration / (count + 1), in ticks
LegacyInterval == Ticks(duration) \div (opts.maxFrames + 1)

\* legacy video.onloadedmetadata up to its first await (i = 1)
LegacyLoadedMetadata ==
    /\ opts.api = "legacy"
    /\ pc = "loading"
    /\ frames' = <<>>
    /\ capI' = 1
    /\ IF 1 <= opts.maxFrames
       THEN /\ pc' = "capture"
            /\ seek' = "pending"
            /\ seekLog' = Append(seekLog, [phase |-> "capture", time |-> 1 * LegacyInterval])
            /\ UNCHANGED <<revoked, promise>>
       ELSE /\ revoked' = revoked + 1
            /\ promise' = Settle(promise, "resolved", <<>>)
            /\ pc' = "done"
            /\ UNCHANGED <<seek, seekLog>>
    /\ UNCHANGED <<appState, shown, options, opts, duration, video, ctx, scanI, previousPixels, changes,
                   frameTimestamps, errorFired, threw, progressLog>>

\* one pass of the legacy loop after its seek completed: the frame is pushed
\* only if (ctx)
LegacySeeked ==
    /\ opts.api = "legacy"
    /\ pc = "capture"
    /\ seek = "pending"
    /\ LET time == capI * LegacyInterval
           newFrames == IF ctx
                        THEN Append(frames, [timestamp |-> time, dataUrl |-> DataUrl])
                        ELSE frames
       IN  /\ frames' = newFrames
           /\ capI' = capI + 1
           /\ IF capI + 1 <= opts.maxFrames
              THEN /\ seek' = "pending"
                   /\ seekLog' = Append(seekLog,
                         [phase |-> "capture", time |-> (capI + 1) * LegacyInterval])
                   /\ UNCHANGED <<pc, revoked, promise>>
              ELSE /\ seek' = "none"
                   /\ revoked' = revoked + 1
                   /\ promise' = Settle(promise, "resolved", newFrames)
                   /\ pc' = "done"
                   /\ UNCHANGED seekLog
    /\ UNCHANGED <<appState, shown, options, opts, duration, video, ctx, scanI, previousPixels, changes,
                   frameTimestamps, errorFired, threw, progressLog>>

\* legacy video.onerror = reject
LegacyVideoError ==
    /\ opts.api = "legacy"
    /\ pc # "done"
    /\ ~errorFired
    /\ errorFired' = TRUE
    /\ promise' = Settle(promise, "rejected", <<>>)
    /\ pc' = IF pc = "loading" THEN "done" ELSE pc
    /\ UNCHANGED <<appState, shown, options, opts, duration, video, ctx, seek, seekLog, scanI, previousPixels,
                   changes, frameTimestamps, capI, frames, revoked, threw, progressLog>>

\* ------------------------------------------------------------ the App
\* the variables of the extractFrames run
runVars == <<options, opts, duration, video, ctx, pc, seek, seekLog, scanI, previousPixels,
             changes, frameTimestamps, capI, frames, promise, revoked, errorFired,
             threw, progressLog>>

\* the ids of the languages the App offers
LanguageIds == {"ja", "en", "zh", "ko"}

\* toggleLanguage without the guard on the last language
toggleLanguageUnguarded(prev, id) ==
    IF \E k \in 1..Len(prev) : prev[k] = id
    THEN SelectSeq(prev, LAMBDA l : l # id)
    ELSE Append(prev, id)

\* the updater of toggleLanguage: prev.includes(id) ? (prev.length > 1 ?
\* prev.filter(l => l !== id) : prev) : [...prev, id]
toggleLanguage(prev, id) ==
    IF \E k \in 1..Len(prev) : prev[k] = id
    THEN IF Len(prev) > 1 THEN SelectSeq(prev, LAMBDA l : l # id) ELSE prev
    ELSE Append(prev, id)

\* a click on a language button while no run is going on
ToggleLanguage ==
    /\ appPc = "idle"
    /\ \E id \in LanguageIds : selectedLangs' = toggleLanguage(selectedLangs, id)
    /\ UNCHANGED <<runVars, appPc, isProcessing, shown, generatedSteps, requests, appError>>

\* the title and description of the step generated for frame k (from 1)
Summary(k) == [title |-> k, description |-> k]

\* no previous step
NoSummary == [title |-> 0, description |-> 0]

\* previousStep of processVideo: the summary of the last generated step (a
\* sequence of one), or undefined (the empty sequence)
PreviousStep(steps) == IF Len(steps) > 0 THEN <<steps[Len(steps)]>> ELSE <<>>

\* the body analyzeStep posts: it has three parameters, imageData,
\* contextPrompt and languages; a fourth argument is not read
analyzeStep(imageData, contextPrompt, languages, previousStep) ==
    [imageData |-> imageData, contextPrompt |-> contextPrompt, languages |-> languages]

\* the input validation of the handler
HandlerAccepts(body) == Len(body.languages) > 0

\* what the handler sends to the vision-language service for a body: the
\* previous step's lines are in the prompt only when the body has previousStep
ServicePrompt(body) ==
    [context   |-> body.contextPrompt,
     languages |-> body.languages,
     previous  |-> IF "previousStep" \in DOMAIN body THEN body.previousStep ELSE NoSummary]

\* processVideo calling analyzeStep for frame i + 1 of count: the requests
\* that have reached the service after it
Analyze(i, count, steps) ==
    LET body == analyzeStep(promise.value[i + 1].dataUrl,
                            [step |-> i + 1, of |-> count],
                            selectedLangs, PreviousStep(steps))
    IN  IF HandlerAccepts(body) THEN Append(requests, ServicePrompt(body)) ELSE requests

\* processVideo after await extractFrames resolved: setProgress(30), then the
\* first analyzeStep call, or with no frame the end of the run
ExtractionResolved ==
    /\ appPc = "extracting"
    /\ promise.state = "resolved"
    /\ IF Len(promise.value) = 0
       THEN /\ shown' = shown \o <<Whole(30), Whole(100)>>
            /\ isProcessing' = FALSE
            /\ appPc' = "succeeded"
            /\ UNCHANGED requests
       ELSE /\ shown' = Append(shown, Whole(30))
            /\ requests' = Analyze(0, Len(promise.value), generatedSteps)
            /\ appPc' = "analyzing"
            /\ UNCHANGED isProcessing
    /\ UNCHANGED <<runVars, selectedLangs, generatedSteps, appError>>

\* processVideo after await extractFrames rejected: catch, finally
ExtractionRejected ==
    /\ appPc = "extracting"
    /\ promise.state = "rejected"
    /\ appError' = TRUE
    /\ isProcessing' = FALSE
    /\ appPc' = "failed"
    /\ UNCHANGED <<runVars, shown, selectedLangs, generatedSteps, requests>>

\* one pass of the analysis loop after analyzeStep returned: push the step,
\* set the progress, then the next analyzeStep call or the end of the run
AnalysisResponded ==
    /\ appPc = "analyzing"
    /\ LET i == Len(generatedSteps)
           count == Len(promise.value)
           newSteps == Append(generatedSteps, Summary(i + 1))
           newShown == Append(shown, AnalysisProgress(i + 1, count))
       IN  /\ generatedSteps' = newSteps
           /\ IF i + 1 < count
              THEN /\ shown' = newShown
                   /\ requests' = Analyze(i + 1, count, newSteps)
                   /\ UNCHANGED <<appPc, isProcessing>>
              ELSE /\ shown' = Append(newShown, Whole(100))
                   /\ isProcessing' = FALSE
                   /\ appPc' = "succeeded"
                   /\ UNCHANGED requests
    /\ UNCHANGED <<runVars, selectedLangs, appError>>

\* analyzeStep throws (the response is not ok, the fetch fails): catch, finally
AnalysisFailed ==
    /\ appPc = "analyzing"
    /\ appError' = TRUE
    /\ isProcessing' = FALSE
    /\ appPc' = "failed"
    /\ UNCHANGED <<runVars, shown, selectedLangs, generatedSteps, requests>>

\* ------------------------------------------------------------ the runs
\* const DEFAULT_OPTIONS
DEFAULT_OPTIONS ==
    [mode |-> "auto", maxFrames |-> DEFAULT_MAX_FRAMES, sensitivity |-> DEFAULT_SENSITIVITY]

\* an option of the caller, and the default where the caller gave none
OptionOr(given, field) ==
    IF field \in DOMAIN given THEN given[field] ELSE DEFAULT_OPTIONS[field]

\* opts = { ...DEFAULT_OPTIONS, ...options }; an absent onProgress is undefined
ResolveOptions(given) ==
    [api        |-> given.api,
     mode       |-> OptionOr(given, "mode"),
     maxFrames  |-> OptionOr(given, "maxFrames"),
     sensitivity |-> OptionOr(given, "sensitivity"),
     onProgress |-> "onProgress" \in DOMAIN given /\ given.onProgress]

NoScript == [kind |-> "free", a |-> Black, b |-> Black, cut |-> 0]

\* automatic runs on free videos
FreeAutoRuns ==
    [o : [api : {"options"}, mode : {"auto"}, maxFrames : 1..MaxFrames,
          sensitivity : Sensitivities, onProgress : {TRUE}],
     d : FreeDurations, v : {NoScript}, c : {TRUE}]

\* automatic runs without a progress callback, and with maxFrames = 0, on the
\* free videos of at most one second
SmallAutoRuns ==
    {r \in [o : [api : {"options"}, mode : {"auto"}, maxFrames : 0..MIN_FRAMES,
                 sensitivity : Sensitivities, onProgress : BOOLEAN],
            d : {d \in FreeDurations : d <= Second}, v : {NoScript}, c : {TRUE}] :
        ~r.o.onProgress \/ r.o.maxFrames = 0}

\* manual runs (no raster is read)
ManualRuns ==
    [o : [api : {"options"}, mode : {"manual"}, maxFrames : 0..MaxFrames,
          sensitivity : {100}, onProgress : {TRUE}],
     d : FreeDurations \cup {12 * Second}, v : {NoScript}, c : {TRUE}]

\* automatic runs on the scripted videos: raster a on the first half, raster b
\* on the second (a = b: a static video)
ScriptedRuns ==
    {r \in [o : [api : {"options"}, mode : {"auto"},
                 maxFrames : (1..MaxFrames) \cup {DEFAULT_MAX_FRAMES},
                 sensitivity : Sensitivities, onProgress : {TRUE}],
            d : ScriptedDurations,
            v : [kind : {"scripted"}, a : Rasters, b : Rasters,
                 cut : {d \div 2 : d \in ScriptedDurations}],
            c : {TRUE}] : r.v.cut = r.d \div 2}

\* the graded videos: one tone per scan interval, the last tone to the end
GradedTones == {<<Black, Dim, White>>, <<White, ClearWhite, ClearBlack>>}

\* automatic runs on the graded videos of 1.5 s
GradedRuns ==
    [o : [api : {"options"}, mode : {"auto"}, maxFrames : 1..2,
          sensitivity : Sensitivities, onProgress : {TRUE}],
     d : {3 * SCAN_INTERVAL},
     v : [kind : {"graded"}, tones : GradedTones],
     c : {TRUE}]

\* runs of the legacy variant, with and without a 2D context
LegacyRuns ==
    [o : [api : {"legacy"}, mode : {"manual"}, maxFrames : 0..MaxFrames,
          sensitivity : {100}, onProgress : {FALSE}],
     d : FreeDurations \cup {12 * Second}, v : {NoScript}, c : BOOLEAN]

\* calls that leave options out: no options at all, only a mode, only maxFrames
DefaultRuns ==
    [o : {[api |-> "options"]}
           \cup {[api |-> "options", mode |-> m] : m \in {"auto", "manual"}}
           \cup {[api |-> "options", maxFrames |-> n] : n \in 1..2},
     d : {SCAN_INTERVAL, Second}, v : {NoScript}, c : {TRUE}]

\* the call of processVideo: mode and maxFrames of the form, sensitivity 0.15
AppRuns ==
    [o : [api : {"options"}, mode : {"auto", "manual"},
          maxFrames : {2, DEFAULT_MAX_FRAMES},
          sensitivity : {APP_SENSITIVITY}, onProgress : {TRUE}],
     d : {60, Second}, v : {NoScript}, c : {TRUE}, app : {"extracting"}]

\* the App with no run going on: extractFrames has not been called
IdleApp ==
    [o : {[api |-> "none"]}, d : {Second}, v : {NoScript}, c : {TRUE}, app : {"idle"}]

Runs ==
    FreeAutoRuns \cup SmallAutoRuns \cup ManualRuns \cup ScriptedRuns \cup LegacyRuns
        \cup DefaultRuns \cup GradedRuns

\* a call of extractFrames from outside the App
Direct(runs) ==
    {[o |-> r.o, d |-> r.d, v |-> r.v, c |-> r.c, app |-> "none"] : r \in runs}

\* the state when extractFrames has returned its promise
Init ==
    /\ \E r \in Direct(Runs) \cup AppRuns \cup IdleApp :
         /\ options = r.o
         /\ opts = ResolveOptions(r.o)
         /\ duration = r.d
         /\ video = r.v
         /\ ctx = r.c
         /\ appPc = r.app
         /\ isProcessing = (r.app = "extracting")
    /\ pc = "loading"
    /\ seek = "none"
    /\ seekLog = <<>>
    /\ scanI = 0
    /\ previousPixels = NoPixels
    /\ changes = <<>>
    /\ frameTimestamps = <<>>
    /\ capI = 0
    /\ frames = <<>>
    /\ promise = Pending
    /\ revoked = 0
    /\ errorFired = FALSE
    /\ threw = FALSE
    /\ progressLog = <<>>
    /\ shown = <<Whole(0)>>
    /\ selectedLangs = INITIAL_LANGS
    /\ generatedSteps = <<>>
    /\ requests = <<>>
    /\ appError = FALSE

Next ==
    \/ LoadedMetadata
    \/ ScanSeeked
    \/ CaptureSeeked
    \/ RenderThrows
    \/ SeekNeverCompletes
    \/ VideoError
    \/ LegacyLoadedMetadata
    \/ LegacySeeked
    \/ LegacyVideoError
    \/ ToggleLanguage
    \/ ExtractionResolved
    \/ ExtractionRejected
    \/ AnalysisResponded
    \/ AnalysisFailed

Spec == Init /\ [][Next]_vars

\* the event loop runs every handler whose event has arrived; whether a seek
\* completes, stalls or the error event fires is the environment's choice
Handlers ==
    LoadedMetadata \/ ScanSeeked \/ CaptureSeeked \/ LegacyLoadedMetadata \/ LegacySeeked

LiveSpec == Spec /\ WF_vars(Handlers)


\* ------------------------------------------------------------ properties
OptionsRun == opts.api = "options"
Resolved == promise.state = "resolved"
Rejected == promise.state = "rejected"
AutoRun == OptionsRun /\ opts.mode = "auto"
ManualRun == OptionsRun /\ opts.mode = "manual"

\* the consolidated points of a finished scan
Consolidated == consolidateChanges(changes, opts.maxFrames)

\* the timestamps of a sequence of points or frames
Timestamps(s) == [k \in 1..Len(s) |-> s[k].timestamp]

StrictlyIncreasing(ts) == \A k \in 1..(Len(ts) - 1) : ts[k] < ts[k + 1]

\* C1: the frames a run resolves with have strictly increasing timestamps
\* (maxFrames >= 1, either mode, fallback points merged in or not).
C1_MonotonicOutput ==
    (OptionsRun /\ Resolved /\ opts.maxFrames >= 1)
        => StrictlyIncreasing(Timestamps(promise.value))

\* an automatic run resolved with detected points and fallback points mixed,
\* a fallback point first
C1_Witness ==
    /\ AutoRun /\ Resolved
    /\ Len(promise.value) >= MIN_FRAMES
    /\ Len(Consolidated) \in 1..(MIN_FRAMES - 1)
    /\ promise.value[1].changeScore = 0
    /\ \E k \in 2..Len(promise.value) : promise.value[k].changeScore > 0

\* C2: a run that resolves (maxFrames >= 1) returns at most maxFrames frames.
C2_CapRespected ==
    (OptionsRun /\ Resolved /\ opts.maxFrames >= 1)
        => Len(promise.value) <= opts.maxFrames

\* the backfill had more candidates than maxFrames and the cut was made
C2_Witness ==
    /\ AutoRun /\ Resolved
    /\ opts.maxFrames >= 1
    /\ Len(Consolidated) \in 1..(MIN_FRAMES - 1)
    /\ \A k \in 1..Len(Consolidated) :
         \A j \in 1..opts.maxFrames :
           RoundTenths(Consolidated[k].timestamp)
             # RoundTenths(generateEqualIntervals(Ticks(duration), opts.maxFrames)[j].timestamp)
    /\ Len(promise.value) = opts.maxFrames

\* C3: automatic mode on a video of at least (MIN_FRAMES + 1) * SCAN_INTERVAL
\* returns at least min(MIN_FRAMES, maxFrames) frames (maxFrames >= 1).
C3_FloorRespected ==
    (AutoRun /\ Resolved /\ opts.maxFrames >= 1
       /\ duration >= (MIN_FRAMES + 1) * SCAN_INTERVAL)
        => Len(promise.value) >= Min(MIN_FRAMES, opts.maxFrames)

\* two points were detected, one of them on a fallback time, and the backfill
\* brought the output to exactly the floor
C3_Witness ==
    /\ AutoRun /\ Resolved
    /\ opts.maxFrames = MIN_FRAMES
    /\ duration >= (MIN_FRAMES + 1) * SCAN_INTERVAL
    /\ Len(Consolidated) = MIN_FRAMES - 1
    /\ \E j \in 1..opts.maxFrames :
         RoundTenths(generateEqualIntervals(Ticks(duration), opts.maxFrames)[j].timestamp)
           = RoundTenths(Consolidated[1].timestamp)
    /\ Len(promise.value) = MIN_FRAMES

\* every timestamp of a sequence of points, frames or seeks lies in [0, duration)
InVideo(t) == 0 <= t /\ t < Ticks(duration)

\* C4: every timestamp the run seeks to, detects, selects or returns lies in
\* [0, duration), for every duration > 0.
C4_TimestampsInVideo ==
    OptionsRun =>
        /\ \A k \in 1..Len(seekLog) : InVideo(seekLog[k].time)
        /\ \A k \in 1..Len(changes) : InVideo(changes[k].timestamp)
        /\ \A k \in 1..Len(frameTimestamps) : InVideo(frameTimestamps[k].timestamp)
        /\ \A k \in 1..Len(frames) : InVideo(frames[k].timestamp)

\* the timestamps i * D / (N + 1), i = 1..N, of a run, in ticks
EqualSpacing == [i \in 1..opts.maxFrames |-> i * duration]

TwoToneRun ==
    /\ AutoRun /\ Resolved
    /\ video.kind = "scripted"
    /\ video.a # video.b
    /\ duration = 10 * Second
    /\ opts.sensitivity = 100
    /\ opts.maxFrames = DEFAULT_MAX_FRAMES

\* C6 as stated: the two-tone run scans exactly one ChangePoint, within 0.5 s
\* of 5.0 s, and returns exactly one frame, at that timestamp.
C6_TwoToneOneFrame ==
    TwoToneRun =>
        /\ Len(changes) = 1
        /\ Abs(changes[1].timestamp - Ticks(5 * Second)) <= Ticks(SCAN_INTERVAL)
        /\ Timestamps(promise.value) = <<changes[1].timestamp>>

\* the fallback points of the run
FallbackPoints == generateEqualIntervals(Ticks(duration), opts.maxFrames)

\* C6 amended: when the two colours differ by a score of at least the
\* sensitivity 0.1, the two-tone run scans exactly one ChangePoint, within
\* 0.5 s of 5.0 s, consolidation keeps it, and - one point being fewer than
\* MIN_FRAMES - the backfill runs: the run returns maxFrames = 10 frames, the
\* ChangePoint among them and the nine others fallback points.
C6_TwoToneBackfilled ==
    (TwoToneRun /\ AtLeastSensitivity(calculateFrameDifference(video.a, video.b),
                                      video.a, opts.sensitivity))
        => /\ Len(changes) = 1
           /\ Abs(changes[1].timestamp - Ticks(5 * Second)) <= Ticks(SCAN_INTERVAL)
           /\ changes[1].timestamp = Ticks(5 * Second)
           /\ changes[1].changeScore = calculateFrameDifference(video.a, video.b)
           /\ Consolidated = changes
           /\ Len(promise.value) = opts.maxFrames
           /\ \E k \in 1..Len(promise.value) :
                /\ promise.value[k].timestamp = changes[1].timestamp
                /\ promise.value[k].changeScore = changes[1].changeScore
                /\ \A j \in (1..Len(promise.value)) \ {k} :
                     \E f \in 1..Len(FallbackPoints) :
                       /\ promise.value[j].timestamp = FallbackPoints[f].timestamp
                       /\ promise.value[j].changeScore = 0

\* the black-then-white video has resolved with its ChangePoint at 5.0 s
C6_Witness ==
    /\ TwoToneRun
    /\ video.a = Black /\ video.b = White
    /\ Timestamps(changes) = <<Ticks(5 * Second)>>
    /\ Len(promise.value) = DEFAULT_MAX_FRAMES

\* the static 20 s video, scanned with sensitivity 0.05, has resolved
StaticRun ==
    /\ AutoRun /\ Resolved
    /\ video.kind = "scripted"
    /\ video.a = video.b
    /\ duration = 20 * Second
    /\ opts.sensitivity = 50
    /\ opts.maxFrames >= 1

EvenlySpaced(ts) ==
    \A k \in 1..(Len(ts) - 2) : ts[k + 1] - ts[k] = ts[k + 2] - ts[k + 1]

\* C7 as stated: the static run scans no ChangePoint and returns
\* min(MIN_FRAMES, maxFrames) evenly spaced frames.
C7_StaticFloorFrames ==
    StaticRun =>
        /\ changes = <<>>
        /\ Len(promise.value) = Min(MIN_FRAMES, opts.maxFrames)
        /\ EvenlySpaced(Timestamps(promise.value))

\* C7 amended: the static run scans no ChangePoint, the fallback runs, and the
\* run returns maxFrames frames (not min(MIN_FRAMES, maxFrames)), evenly
\* spaced at i * duration / (maxFrames + 1), each with changeScore 0.
C7_StaticMaxFrames ==
    StaticRun =>
        /\ changes = <<>>
        /\ Len(promise.value) = opts.maxFrames
        /\ Timestamps(promise.value) = EqualSpacing
        /\ EvenlySpaced(Timestamps(promise.value))
        /\ \A k \in 1..Len(promise.value) : promise.value[k].changeScore = 0

\* the static run with maxFrames above MIN_FRAMES has resolved
C7_Witness ==
    /\ StaticRun
    /\ opts.maxFrames > MIN_FRAMES
    /\ Len(promise.value) = opts.maxFrames

\* C8: a run whose seek (scan or capture) never completes ends in failure:
\* its promise is eventually rejected.
C8_StalledSeekRejects ==
    (OptionsRun /\ seek = "stalled") ~> Rejected

\* C9: whenever the promise of a run is settled (resolved, rejected by the
\* catch block, rejected by the error event) the object URL has been released.
C9_ReleasedWhenSettled ==
    (OptionsRun /\ promise.state # "pending") => revoked >= 1

\* the error event rejected the run in the middle of its capture phase
C9_Witness ==
    /\ OptionsRun /\ Rejected
    /\ errorFired /\ ~threw
    /\ pc = "capture" /\ Len(frames) >= 1
    /\ revoked = 1

\* C10: a run in which an error occurred (error event while loading, scanning
\* or capturing, exception in the loop) is rejected and never resolved, whatever
\* the order of the error event and the seek completions.
C10_ErrorNeverResolves ==
    (OptionsRun /\ (errorFired \/ threw)) => Rejected

\* the error event fired during the capture, the remaining seeks completed
\* and the function went on to call resolve(frames) with every frame
C10_Witness ==
    /\ OptionsRun /\ errorFired
    /\ pc = "done"
    /\ Len(frames) >= 2
    /\ Len(frames) = Len(frameTimestamps)
    /\ Rejected

\* C11: a run called with maxFrames <= 0 fails with InvalidArgument: it never
\* resolves with a frame sequence, empty or not.
C11_NonPositiveMaxFramesFails ==
    (OptionsRun /\ opts.maxFrames <= 0) => ~Resolved

\* the seeks of a phase issued so far
SeeksOf(phase) == SelectSeq(seekLog, LAMBDA e : e.phase = phase)

\* C12: a manual run has no scan phase: no scan seek is issued, the
\* Differencer is never called (the scan loop never runs), the progress
\* callback is never invoked, and a run that resolves has performed exactly
\* maxFrames full-resolution seeks.
C12_ManualSkipsScan ==
    ManualRun =>
        /\ SeeksOf("scan") = <<>>
        /\ pc # "scan"
        /\ scanI = 0 /\ previousPixels = NoPixels /\ changes = <<>>
        /\ progressLog = <<>>
        /\ Len(SeeksOf("capture")) <= opts.maxFrames
        /\ Resolved => Len(SeeksOf("capture")) = opts.maxFrames

\* a manual run given a progress callback has resolved after its capture seeks
C12_Witness ==
    /\ ManualRun /\ Resolved
    /\ opts.onProgress
    /\ opts.maxFrames >= 2
    /\ Len(seekLog) = opts.maxFrames

\* the scan of an automatic run is over (the capture phase was entered)
ScanOver == AutoRun /\ ~threw /\ pc \in {"capture", "done"} /\ scanI = totalScans + 1

\* C13: in an automatic run with a progress callback the callback is invoked
\* once per scan step (floor(duration / 0.5) + 1 times in all), every value is
\* a number in 0..100, the values never decrease and the last one is 100, for
\* every duration > 0.
C13_ProgressReports ==
    (AutoRun /\ opts.onProgress /\ ~threw) =>
        /\ Len(progressLog) = scanI
        /\ \A k \in 1..Len(progressLog) :
             /\ ~progressLog[k].nan
             /\ progressLog[k].value \in 0..100
        /\ \A k \in 1..(Len(progressLog) - 1) :
             progressLog[k].value <= progressLog[k + 1].value
        /\ ScanOver => /\ Len(progressLog) = totalScans + 1
                       /\ progressLog[Len(progressLog)].value = 100

\* the detected ChangePoints the run selected, as frames
DetectedFrames == {FrameOf(Consolidated[k]) : k \in 1..Len(Consolidated)}

\* the timestamps the Fallback Interval Generator yields for this run
FallbackTimes == {i * duration : i \in 1..opts.maxFrames}

\* C14: every returned frame carries the changeScore of its selection: 0 for a
\* fallback timestamp (every manual frame, every backfilled frame), and for a
\* selected ChangePoint the Differencer score of its scan step, which is at
\* least the sensitivity.
C14_FramesCarryScore ==
    (OptionsRun /\ Resolved) =>
        \A k \in 1..Len(promise.value) :
          LET f == promise.value[k] IN
          IF AutoRun /\ \E c \in 1..Len(Consolidated) : Consolidated[c].timestamp = f.timestamp
          THEN /\ f \in DetectedFrames
               /\ \E c \in 1..Len(changes) :
                    /\ changes[c].timestamp = f.timestamp
                    /\ changes[c].changeScore = f.changeScore
               /\ AtLeastSensitivity(f.changeScore, Black, opts.sensitivity)
               /\ f.changeScore > 0
               /\ video.kind = "scripted"
                    => f.changeScore = calculateFrameDifference(video.a, video.b)
          ELSE /\ f.changeScore = 0
               /\ f.timestamp \in FallbackTimes

\* a resolved automatic run returned a detected frame and a backfilled one
C14_Witness ==
    /\ AutoRun /\ Resolved
    /\ \E k \in 1..Len(promise.value) : promise.value[k].changeScore > 0
    /\ \E k \in 1..Len(promise.value) : promise.value[k].changeScore = 0

\* the caller gave no sensitivity
SensitivityOmitted == OptionsRun /\ "sensitivity" \notin DOMAIN options

\* C15: a run whose caller omitted sensitivity uses the documented default
\* (0.15), which is also the value the App call site passes: one single value
\* at every entry point.
C15_DocumentedDefaultSensitivity ==
    SensitivityOmitted =>
        /\ opts.sensitivity = DOCUMENTED_SENSITIVITY
        /\ opts.sensitivity = APP_SENSITIVITY

\* the scan has emitted two ChangePoints less than MIN_FRAME_INTERVAL apart
TwoClosePoints ==
    /\ OptionsRun /\ AutoRun
    /\ Len(changes) = 2
    /\ changes[1].timestamp < changes[2].timestamp
    /\ changes[2].timestamp - changes[1].timestamp < Ticks(MIN_FRAME_INTERVAL)

\* C16: consolidateChanges on two time-ordered ChangePoints less than
\* MIN_FRAME_INTERVAL (1.0 s) apart returns, for every maxFrames >= 1, exactly
\* one point: the one with the higher changeScore, the earlier one on a tie.
C16_CloseTwoMergeToOne ==
    TwoClosePoints =>
        \A m \in 1..(MaxFrames + 1) :
          LET out == consolidateChanges(changes, m) IN
          /\ Len(out) = 1
          /\ out[1] \in {changes[1], changes[2]}
          /\ out[1].changeScore >= changes[1].changeScore
          /\ out[1].changeScore >= changes[2].changeScore
          /\ changes[1].changeScore = changes[2].changeScore => out[1] = changes[1]

\* two close points of equal score were emitted
C16_Witness ==
    /\ TwoClosePoints
    /\ changes[1].changeScore = changes[2].changeScore

\* a second pair, the later point scoring higher
C16_WitnessLaterHigher ==
    /\ TwoClosePoints
    /\ changes[1].changeScore < changes[2].changeScore

\* the temporally merged set of the emitted changes (step 1 of consolidateChanges)
Merged == IF Len(changes) = 0 THEN <<>> ELSE MergeClose(changes, 2, <<changes[1]>>)

\* the elements of a sequence
Range(s) == {s[k] : k \in 1..Len(s)}

\* C17: consolidateChanges returns, when the merged set has more than
\* maxFrames points, exactly maxFrames of them, each scoring at least as high
\* as every dropped one, in ascending time; a merged set of at most maxFrames
\* points is returned unchanged, and no input gives no output.
C17_CapKeepsTopScores ==
    (OptionsRun /\ AutoRun) =>
        LET merged == Merged IN
        \A m \in 0..(MaxFrames + 1) :
          LET out == consolidateChanges(changes, m) IN
          /\ Len(changes) = 0 => out = <<>>
          /\ Len(merged) <= m => out = merged
          /\ Len(merged) > m =>
               /\ Len(out) = m
               /\ Range(out) \subseteq Range(merged)
               /\ StrictlyIncreasing(Timestamps(out))
               /\ \A o \in Range(out) : \A d \in Range(merged) \ Range(out) :
                    o.changeScore >= d.changeScore

\* three merged points, the cap below three, and a later point outscoring an
\* earlier one among those kept
C17_Witness ==
    /\ OptionsRun /\ AutoRun
    /\ Len(Merged) >= 3
    /\ opts.maxFrames = 2
    /\ Len(Consolidated) = 2
    /\ Consolidated[1].changeScore < Consolidated[2].changeScore
    /\ \E d \in Range(Merged) \ Range(Consolidated) :
         d.changeScore < Consolidated[1].changeScore

\* the scan is over and the selection stands in frameTimestamps
Selected == ScanOver

\* the timestamp t (ticks) rounded to one decimal place: the whole tenths
\* below t, and one more when the rest is half a tenth or more
Tenth(t) ==
    LET whole == (10 * t) \div Ticks(Second)
        rest  == 10 * t - whole * Ticks(Second)
    IN  IF 2 * rest >= Ticks(Second) THEN whole + 1 ELSE whole

\* the consolidated points, and the fallback points whose tenth is free
BackfillCandidates ==
    LET cons  == Range(Consolidated)
        taken == {Tenth(c.timestamp) : c \in cons}
    IN  cons \cup {f \in Range(FallbackPoints) : Tenth(f.timestamp) \notin taken}

\* C18: with fewer than MIN_FRAMES consolidated points the selected set is
\* the first maxFrames elements, in ascending time, of the consolidated points
\* together with the fallback points whose timestamp rounded to one decimal
\* differs from that of every consolidated point.
C18_BackfillSelection ==
    Selected =>
        LET cons == Consolidated
            cand == BackfillCandidates
            sel  == Range(frameTimestamps)
        IN  Len(cons) < MIN_FRAMES =>
              /\ Len(frameTimestamps) = Min(opts.maxFrames, Cardinality(cand))
              /\ sel \subseteq cand
              /\ StrictlyIncreasing(Timestamps(frameTimestamps))
              /\ \A c \in cand \ sel : \A f \in sel : f.timestamp < c.timestamp

\* a backfill that met a taken tenth: a fallback point was left out for a
\* consolidated point, and both a detected and a synthesized point were selected
C18_Witness ==
    /\ Selected /\ Len(Consolidated) \in 1..(MIN_FRAMES - 1)
    /\ Range(FallbackPoints) \ BackfillCandidates # {}
    /\ \E k \in 1..Len(frameTimestamps) : frameTimestamps[k].changeScore > 0
    /\ \E k \in 1..Len(frameTimestamps) : frameTimestamps[k].changeScore = 0

\* C19: with at least MIN_FRAMES consolidated points the fallback generator
\* is not used: the returned timestamps are exactly the consolidated
\* ChangePoints, and no frame of score 0 is added.
C19_NoBackfillAtFloor ==
    (AutoRun /\ Resolved /\ Len(Consolidated) >= MIN_FRAMES) =>
        /\ Timestamps(promise.value) = Timestamps(Consolidated)
        /\ \A k \in 1..Len(promise.value) :
             /\ promise.value[k].changeScore = Consolidated[k].changeScore
             /\ promise.value[k].changeScore > 0

\* a run resolved with three consolidated points and room for a fourth frame
C19_Witness ==
    /\ AutoRun /\ Resolved
    /\ Len(Consolidated) = MIN_FRAMES
    /\ opts.maxFrames > MIN_FRAMES

\* C20: when 1 <= k < MIN_FRAMES points were detected after consolidation,
\* every one of them is among the returned frames: the backfill only adds.
C20_BackfillKeepsDetected ==
    (AutoRun /\ Resolved /\ opts.maxFrames >= 1
        /\ Len(Consolidated) \in 1..(MIN_FRAMES - 1)) =>
        \A c \in Range(Consolidated) :
          \E k \in 1..Len(promise.value) :
            /\ promise.value[k].timestamp = c.timestamp
            /\ promise.value[k].changeScore = c.changeScore

\* the raster the video shows at scan step i, where the video fixes it
Shown(i) == CHOOSE raster \in Rendered(ScanTime(i)) : TRUE

\* a step of the model is a completed pass of the scan loop
ScanStep == AutoRun /\ pc = "scan" /\ scanI' = scanI + 1

\* what the emission rule makes of `changes` at scan step scanI, the video
\* having shown prev at the step before and cur at this step
EmissionRule(prev, cur) ==
    LET sum == calculateFrameDifference(prev, cur) IN
    IF sum * 1000 >= opts.sensitivity * 3 * CHANNEL_MAX * NumPixels
    THEN changes' = Append(changes, [timestamp |-> ScanTime(scanI), changeScore |-> sum])
    ELSE changes' = changes

\* C21: scan step 0 never emits a ChangePoint; at every scan step i >= 1 a
\* ChangePoint {timestamp of step i, score} is emitted if and only if the
\* Differencer score between the raster of step i-1 (emitted or not) and the
\* raster of step i is at least the sensitivity.
C21_EmissionRule ==
    [][ScanStep =>
         IF scanI = 0 THEN changes' = changes
         ELSE IF video.kind = "free"
              THEN EmissionRule(previousPixels, previousPixels')
              ELSE EmissionRule(Shown(scanI - 1), Shown(scanI))]_vars

\* the graded video Black, Dim, White at sensitivity 0.1: step 1 (0.078) did
\* not emit, step 2 emitted the score against Dim, not against Black
C21_Witness ==
    /\ AutoRun /\ video.kind = "graded" /\ video.tones = <<Black, Dim, White>>
    /\ opts.sensitivity = 100
    /\ scanI = totalScans + 1
    /\ changes = <<[timestamp |-> Ticks(Second),
                    changeScore |-> calculateFrameDifference(Dim, White)]>>

\* the time of scan step i as the claim states it: min(i * 0.5, duration - 0.01)
ClaimedScanTime(i) ==
    IF i * SCAN_INTERVAL < duration - SEEK_END_MARGIN
    THEN i * SCAN_INTERVAL * TimeDen
    ELSE (duration - SEEK_END_MARGIN) * TimeDen

\* C22: the scan is one pass in increasing time: the scan seeks are issued at
\* the strictly increasing times min(i*0.5, duration-0.01), i = 0..floor(duration/0.5),
\* each exactly once, and the emitted ChangePoints are in strictly increasing
\* timestamp order.
C22_SinglePassScan ==
    AutoRun =>
        LET scans == SeeksOf("scan") IN
        /\ Len(scans) <= duration \div SCAN_INTERVAL + 1
        /\ \A k \in 1..Len(scans) : scans[k].time = ClaimedScanTime(k - 1)
        /\ \A k \in 1..(Len(scans) - 1) : scans[k].time < scans[k + 1].time
        /\ (pc = "scan" /\ ~threw) => Len(scans) = scanI + 1
        /\ ScanOver => Len(scans) = duration \div SCAN_INTERVAL + 1
        /\ StrictlyIncreasing(Timestamps(changes))
        /\ \A c \in 1..Len(changes) :
             \E k \in 2..Len(scans) : scans[k].time = changes[c].timestamp

\* a scan of a video of whole half seconds is over: its last seek was clamped
\* to duration - 0.01, and two ChangePoints were emitted
C22_Witness ==
    /\ ScanOver
    /\ duration = 2 * Second
    /\ Len(SeeksOf("scan")) = 5
    /\ SeeksOf("scan")[5].time = Ticks(duration - SEEK_END_MARGIN)
    /\ Len(changes) >= 2

\* the seeks issued and not yet observed complete
Outstanding == IF seek \in {"pending", "stalled"} THEN 1 ELSE 0

\* C23: at most one seek is pending at any time: every seek but the last has
\* been observed complete and its frame rendered (a completed pass of the scan
\* or capture loop) before the next was issued, and all scan seeks precede all
\* capture seeks.
C23_OneSeekAtATime ==
    (OptionsRun /\ ~threw) =>
        /\ Len(seekLog) = scanI + capI + Outstanding
        /\ Len(SeeksOf("scan")) = scanI + (IF pc = "scan" THEN Outstanding ELSE 0)
        /\ Len(SeeksOf("capture")) = capI + (IF pc = "capture" THEN Outstanding ELSE 0)
        /\ capI = Len(frames)
        /\ \A j \in 1..Len(seekLog) : \A k \in (j + 1)..Len(seekLog) :
             seekLog[j].phase = "capture" => seekLog[k].phase = "capture"
        /\ (AutoRun /\ SeeksOf("capture") # <<>>) => scanI = totalScans + 1

\* an automatic run is capturing its second frame: the scan seeks and the
\* first capture seek are complete, one seek is pending
C23_Witness ==
    /\ AutoRun /\ ~threw
    /\ pc = "capture" /\ seek = "pending"
    /\ capI = 1
    /\ scanI >= 3
    /\ Len(seekLog) = scanI + 2

\* the run was rejected by the video's error event
RejectedByError == OptionsRun /\ errorFired /\ Rejected

\* C24: once a run has been rejected because the error event fired during a
\* scan or a capture, it does nothing more to the video: no later seek is
\* issued, no further frame is captured, and the source handle is not
\* released a second time.
C24_ErrorAborts ==
    [][RejectedByError =>
         /\ seekLog' = seekLog
         /\ frames' = frames
         /\ revoked' = revoked]_vars

\* an automatic run has ended as the claim says: floor(duration / 0.5) + 1
\* scan seeks, then one capture seek per selected timestamp (at most
\* maxFrames) in ascending time, then the promise resolved
TerminatedAsClaimed ==
    /\ pc = "done" /\ seek = "none" /\ Resolved
    /\ Len(SeeksOf("scan")) = duration \div SCAN_INTERVAL + 1
    /\ Len(SeeksOf("capture")) = Len(frameTimestamps)
    /\ Len(SeeksOf("capture")) <= opts.maxFrames
    /\ \A k \in 1..Len(frameTimestamps) :
         /\ SeeksOf("capture")[k].time = frameTimestamps[k].timestamp
         /\ seekLog[duration \div SCAN_INTERVAL + 1 + k].phase = "capture"
    /\ \A k \in 1..(Len(frameTimestamps) - 1) :
         frameTimestamps[k].timestamp < frameTimestamps[k + 1].timestamp
    /\ Len(promise.value) = Len(frameTimestamps)

\* the event a handler of the run waits for is due: the metadata, or the
\* completion of the seek issued last
HandlerDue == pc = "loading" \/ (pc \in {"scan", "capture"} /\ seek = "pending")

\* the passes the run can still make: the metadata handler, the scan steps
\* left, the captures left, and the settling
Remaining ==
    (IF pc = "loading" THEN 1 ELSE 0) + (totalScans + 1 - scanI)
        + (opts.maxFrames - capI) + (IF pc = "done" THEN 0 ELSE 1)

Buffers == Rasters \cup {ClearBlack, ClearWhite}

\* the colour bytes of pixel p (from 1) of a buffer: red, green, blue
Colour(buffer, p) == <<buffer[4 * p - 3], buffer[4 * p - 2], buffer[4 * p - 1]>>

\* the sum over the pixels 1..p of |dr| + |dg| + |db|
RECURSIVE ColourDistance(_, _, _)
ColourDistance(b1, b2, p) ==
    IF p = 0 THEN 0
    ELSE LET c1 == Colour(b1, p)
             c2 == Colour(b2, p)
         IN  Abs(c1[1] - c2[1]) + Abs(c1[2] - c2[2]) + Abs(c1[3] - c2[3])
             + ColourDistance(b1, b2, p - 1)

\* every pixel of the buffer has the colour (level, level, level)
AllColour(buffer, level) ==
    \A p \in 1..NumPixels : Colour(buffer, p) = <<level, level, level>>

C27_OutputSpacing ==
    (OptionsRun /\ AutoRun) =>
        \A m \in 1..(MaxFrames + 1) :
          LET out == consolidateChanges(changes, m) IN
          \A k \in 1..(Len(out) - 1) :
            out[k + 1].timestamp - out[k].timestamp >= MIN_FRAME_INTERVAL * TimeDen

\* a merge that replaced a kept point by a later, higher-scoring one and
\* still kept a further point
C27_Witness ==
    /\ OptionsRun /\ AutoRun
    /\ Len(changes) >= 3
    /\ changes[2].timestamp - changes[1].timestamp < Ticks(MIN_FRAME_INTERVAL)
    /\ changes[2].changeScore > changes[1].changeScore
    /\ Len(Merged) >= 2
    /\ Merged[1] = changes[2]

\* a run of processVideo is going on or has ended
AppRun == appPc \in {"extracting", "analyzing", "succeeded", "failed"}

\* progress value a is at most b
AtMost(a, b) == a.num * b.den <= b.num * a.den

\* the progress values are numbers in 0..100 that never decrease
ProgressInOrder ==
    /\ \A k \in 1..Len(shown) :
         /\ ~shown[k].nan
         /\ AtMost(Whole(0), shown[k]) /\ AtMost(shown[k], Whole(100))
    /\ \A k \in 1..(Len(shown) - 1) : AtMost(shown[k], shown[k + 1])

\* C28: during a processVideo run the displayed progress never decreases and
\* stays within 0..100: the scan callbacks map into 0..30, the analysis loop
\* into 30..100, a successful run ends at 100, and isProcessing is false
\* again after the run, succeeded or failed.
C28_AppProgress ==
    AppRun =>
        /\ isProcessing = (appPc \in {"extracting", "analyzing"})
        /\ appPc # "failed" => ProgressInOrder
        /\ appPc = "extracting" => \A k \in 1..Len(shown) : AtMost(shown[k], Whole(30))
        /\ appPc = "analyzing" => AtMost(Whole(30), shown[Len(shown)])
        /\ appPc = "succeeded" => shown[Len(shown)] = Whole(100)

\* C29: for every frame after the first, the request that reaches the
\* vision-language service carries the summary (title and description) of the
\* step generated for the frame before; the first frame's request carries none.
C29_PreviousStepReachesService ==
    AppRun =>
        \A k \in 1..Len(requests) :
          requests[k].previous = IF k = 1 THEN NoSummary ELSE Summary(k - 1)

\* the selection as a set
Selection == {selectedLangs[k] : k \in 1..Len(selectedLangs)}

\* C30: after any sequence of toggleLanguage calls from ['ja', 'en'] the
\* selection is never empty and has no duplicate, and toggling the only
\* selected language leaves it unchanged.
C30_SelectionNeverEmpty ==
    /\ Len(selectedLangs) >= 1
    /\ Cardinality(Selection) = Len(selectedLangs)
    /\ Selection \subseteq LanguageIds
    /\ Len(selectedLangs) = 1 =>
         toggleLanguage(selectedLangs, selectedLangs[1]) = selectedLangs

\* toggles have left one language, one that was not selected at the start
C30_Witness ==
    /\ appPc = "idle"
    /\ Len(selectedLangs) = 1
    /\ selectedLangs[1] \notin {"ja", "en"}

====
